---------------------------- MODULE Spec2Model ----------------------------
(***************************************************************************)
(* Model of the tenant service: the tenant registry (main.py,              *)
(* app/services/tenant_service.py) over a MySQL table, and the usage       *)
(* aggregation engine (app/services/usage_service.py,                      *)
(* app/services/mongodb_service.py) over the MySQL ledger and the          *)
(* per-tenant MongoDB collections.                                         *)
(*                                                                         *)
(* Time is counted in whole seconds since EpochYear-01-01T00:00:00Z.       *)
(* Prices are counted in units of 0.00001 currency units, so that every    *)
(* product count * price is an integer.                                    *)
(***************************************************************************)
EXTENDS Integers, Sequences, FiniteSets, TLC

VARIABLES
    ledger,       \* rows of table tenant_usages (CentralUsage)
    nextUsageId,  \* next autoincrement id of tenant_usages
    mongo,        \* collection name -> set of documents
    nextOid,      \* next ObjectId handed out by MongoDB
    usageResp,    \* outcome of the last usage call
    tenants,      \* committed rows of table tenants
    nextTenantId, \* next autoincrement id of tenants
    requests,     \* number of tenant requests received so far
    pc,           \* per request handler: the await it is suspended at
    req,          \* per request handler: the request it serves
    txn,          \* per request handler: its session's open transaction
    resp,         \* the response sent last, with the handler that sent it
    docs,         \* committed rows of table tenant_docs
    nextDocId,    \* next autoincrement id of tenant_docs
    docRequests,  \* number of tenant-document creates started so far
    docPc,        \* per create: the statement it is about to run
    docReq,       \* per create: who runs it and what it creates
    docTxn,       \* per create: the rows its open transaction has inserted
    docResp,      \* the outcome of the create that ended last
    billings,     \* committed rows of table billings
    nextBillingId,\* next autoincrement id of billings
    billPc,       \* per billing request: the await it is suspended at
    billReq,      \* per billing request: the request it serves
    billResp      \* the billing response sent last

usageVars == <<ledger, nextUsageId, mongo, nextOid, usageResp>>
tenantVars == <<tenants, nextTenantId, requests, pc, req, txn, resp>>
docVars == <<docs, nextDocId, docRequests, docPc, docReq, docTxn, docResp>>
billingVars == <<billings, nextBillingId, billPc, billReq, billResp>>
vars == <<ledger, nextUsageId, mongo, nextOid, usageResp,
          tenants, nextTenantId, requests, pc, req, txn, resp, docVars,
          billingVars>>

(***************************************************************************)
(* Bounds of the model.                                                    *)
(***************************************************************************)
MaxRecords == 2    \* usage records (ledger rows plus events) ever stored
MaxRequests == 3   \* tenant requests ever received
EpochYear == 2024  \* the year second 0 of the model's clock lies in

None == "None"

(***************************************************************************)
(* datetime: the proleptic Gregorian calendar, as datetime(y, m, d,        *)
(* tzinfo=utc) and timedelta compute it.                                   *)
(***************************************************************************)
IsLeap(y) == (y % 4 = 0 /\ y % 100 # 0) \/ y % 400 = 0

DaysInMonth(y, m) ==
    IF m = 2 THEN (IF IsLeap(y) THEN 29 ELSE 28)
    ELSE IF m \in {4, 6, 9, 11} THEN 30 ELSE 31

DaysInYear(y) == IF IsLeap(y) THEN 366 ELSE 365

RECURSIVE DaysBeforeYear(_)
DaysBeforeYear(y) ==
    IF y <= EpochYear THEN 0 ELSE DaysBeforeYear(y - 1) + DaysInYear(y - 1)

RECURSIVE DaysBeforeMonth(_, _)
DaysBeforeMonth(y, m) ==
    IF m <= 1 THEN 0 ELSE DaysBeforeMonth(y, m - 1) + DaysInMonth(y, m - 1)

SecondsPerDay == 24 * 60 * 60

\* datetime(year, month, day, tzinfo=timezone.utc) as seconds since the epoch
datetime(y, m, d) ==
    (DaysBeforeYear(y) + DaysBeforeMonth(y, m) + (d - 1)) * SecondsPerDay

\* timedelta(minutes=n) and timedelta(seconds=n), in seconds
timedelta_minutes(n) == 60 * n
timedelta_seconds(n) == n

\* datetime.date(): the calendar day a timestamp lies in, as a day number
DayNumber(ts) == ts \div SecondsPerDay

YearOfDay(day) ==
    CHOOSE y \in EpochYear..(EpochYear + 3) :
        DaysBeforeYear(y) <= day /\ day < DaysBeforeYear(y + 1)

MonthOfDay(day) ==
    LET y == YearOfDay(day)
        k == day - DaysBeforeYear(y)
    IN CHOOSE m \in 1..12 :
        DaysBeforeMonth(y, m) <= k /\ k < DaysBeforeMonth(y, m) + DaysInMonth(y, m)

\* d.strftime("%Y-%m-%d"), kept as the triple <<year, month, day>>
strftime(day) ==
    LET y == YearOfDay(day)
        m == MonthOfDay(day)
    IN <<y, m, day - DaysBeforeYear(y) - DaysBeforeMonth(y, m) + 1>>

(***************************************************************************)
(* Inputs of the usage calls.                                              *)
(***************************************************************************)
UsageTenants == {"tenant_7", "tenant_8"}

\* the months queried: a December (year carry) and the January after it
Months == {<<EpochYear, 12>>, <<EpochYear + 1, 1>>}

\* timezone_offset_minutes values
TzOffsets == {0, 60}

\* instants usage is stamped with: the start of December, the last second
\* of the local December at offset 60, the last second of the UTC
\* December and the first second of January
Times ==
    { datetime(EpochYear, 12, 1),
      datetime(EpochYear + 1, 1, 1) - 3601,
      datetime(EpochYear + 1, 1, 1) - 1,
      datetime(EpochYear + 1, 1, 1) }

\* request bodies of POST /usage (UsageCreate without its date)
UsageInputs == { [tokens_used |-> 1500, per_token_price |-> 1000] }

\* request bodies of POST /usage with a negative count or a negative price
NegativeUsageInputs ==
    { [tokens_used |-> -1500, per_token_price |-> 1000],
      [tokens_used |-> 1500, per_token_price |-> -1000] }

\* token breakdowns of AI replies: category -> TokenInfo
TokenInputs ==
    { [input |-> [count |-> 100, price_per_token |-> 1],
       output |-> [count |-> 50, price_per_token |-> 3]] }

(***************************************************************************)
(* Python and driver primitives.                                           *)
(***************************************************************************)
Ok(v) == [ok |-> TRUE, value |-> v]
Raise(e) == [ok |-> FALSE, exc |-> e]

\* record[key] on a dict: KeyError when the key is absent
GetItem(record, key) ==
    IF key \in DOMAIN record THEN Ok(record[key]) ELSE Raise("KeyError")

\* sum(f[x] for x in S) over a finite set
RECURSIVE SumOver(_, _)
SumOver(S, f) ==
    IF S = {} THEN 0
    ELSE LET x == CHOOSE x \in S : TRUE
         IN f[x] + SumOver(S \ {x}, f)

\* sorted(S) of a finite set of integers
RECURSIVE Sorted(_)
Sorted(S) ==
    IF S = {} THEN << >>
    ELSE LET x == CHOOSE x \in S : \A y \in S : x <= y
         IN <<x>> \o Sorted(S \ {x})

(***************************************************************************)
(* MongoDBService                                                          *)
(***************************************************************************)
\* get_tenant_collection: the name of the tenant's collection
CollectionName(tenant_id) == tenant_id \o "_replies"

get_tenant_collection(tenant_id) == mongo[CollectionName(tenant_id)]

\* AIReply.model_dump() of a reply, with the _id insert_one assigns
AIReplyDocument(oid, tenant_id, created_at, tokens) ==
    [_id |-> oid,
     receiver |-> "receiver",
     user_query |-> "query",
     ai_reply |-> "reply",
     tokens |-> tokens,
     total_tokens |-> tokens.input.count + tokens.output.count,
     customer_feedback |-> {},
     tenant_id |-> tenant_id,
     created_at |-> created_at]

\* the projection {created_at: 1, total_tokens: 1, tokens: 1} of find()
Project(doc) ==
    [_id |-> doc._id,
     created_at |-> doc.created_at,
     total_tokens |-> doc.total_tokens,
     tokens |-> doc.tokens]

\* find({"created_at": {"$gte": start_date, "$lt": end_date}}, projection)
\* on the tenant's collection of the database
get_data_for_date_range_in(database, tenant_id, start_date, end_date) ==
    { Project(doc) : doc \in
        { d \in database[CollectionName(tenant_id)] :
            d.created_at >= start_date /\ d.created_at < end_date } }

\* the same find on the database as it is now
get_data_for_date_range(tenant_id, start_date, end_date) ==
    get_data_for_date_range_in(mongo, tenant_id, start_date, end_date)

\* "document_total_price" of the aggregation pipelines: $reduce over
\* $objectToArray("$tokens") of count * price_per_token
document_total_price(doc) ==
    SumOver(DOMAIN doc.tokens,
            [c \in DOMAIN doc.tokens |->
                doc.tokens[c].count * doc.tokens[c].price_per_token])

(***************************************************************************)
(* UsageService                                                            *)
(***************************************************************************)
\* datetime(year, month, day) raises ValueError unless the date exists
ValidDate(y, m, d) == m \in 1..12 /\ d \in 1..DaysInMonth(y, m)

\* the same branch without the test for December
MonthEndArgsNoCarry(year, month) == <<year, month + 1, 1>>

\* "if month == 12: datetime(year + 1, 1, 1) else: datetime(year, month + 1, 1)":
\* the arguments of the datetime the end of the window is computed from
MonthEndArgs(year, month) ==
    IF month = 12 THEN <<year + 1, 1, 1>> ELSE <<year, month + 1, 1>>

\* the first instant of the month after (year, month)
NextMonthStart(year, month) ==
    LET a == MonthEndArgs(year, month) IN datetime(a[1], a[2], a[3])

\* the window a function computes: its bounds, or the ValueError of the
\* datetime constructor; `boundary` is the datetime the end is derived from
\* and `back` what is subtracted from it
Window(year, month, start_shift, back) ==
    LET a == MonthEndArgs(year, month)
    IN IF ~ValidDate(year, month, 1) \/ ~ValidDate(a[1], a[2], a[3])
       THEN Raise("ValueError")
       ELSE Ok([start_date |-> datetime(year, month, 1) - start_shift,
                boundary |-> datetime(a[1], a[2], a[3]),
                end_date |-> datetime(a[1], a[2], a[3]) - back])

\* the window of get_monthly_summary and of get_combined_daily_usage
SummaryWindow(year, month, tz) ==
    Window(year, month, timedelta_minutes(tz),
           timedelta_seconds(1) + timedelta_minutes(tz))

\* the window of MongoDBService.aggregate_monthly_data: the UTC month, the
\* end excluded by $lt
AggregateMonthlyWindow(year, month) == Window(year, month, 0, 0)

\* adjusted_start_date of get_monthly_summary / start_date of the daily path
AdjustedStart(year, month, tz) ==
    SummaryWindow(year, month, tz).value.start_date

\* adjusted_end_date of get_monthly_summary / end_date of the daily path
AdjustedEnd(year, month, tz) ==
    SummaryWindow(year, month, tz).value.end_date

\* a faulty variant of LedgerRowsIn: the filter on tenant_id left out
LedgerRowsOfAnyTenant(db, tenant_id, start_date, end_date) ==
    { r \in db : r.date >= start_date /\ r.date <= end_date }

\* WHERE tenant_id = :t AND date >= :start AND date <= :end on the rows db
\* of table tenant_usages
LedgerRowsIn(db, tenant_id, start_date, end_date) ==
    { r \in db :
        r.tenant_id = tenant_id /\ r.date >= start_date /\ r.date <= end_date }

\* the same select on the table as it is now
LedgerRows(tenant_id, start_date, end_date) ==
    LedgerRowsIn(ledger, tenant_id, start_date, end_date)

\* record['total_tokens'] * record['per_token_price'] of a fetched document
MongoRecordPrice(record) ==
    LET total_tokens == GetItem(record, "total_tokens")
        per_token_price == GetItem(record, "per_token_price")
    IN IF ~total_tokens.ok THEN total_tokens
       ELSE IF ~per_token_price.ok THEN per_token_price
       ELSE Ok(total_tokens.value * per_token_price.value)

\* func.sum(column) over the selected rows: NULL, kept as the empty set,
\* when no row is selected, else the one sum
func_sum(rows, f) == IF rows = {} THEN {} ELSE {SumOver(rows, f)}

\* a faulty variant of OrZero: the sum used as fetched
OrZeroOmitted(total) == total

\* "total_tokens or 0", "total_price or 0.0"
OrZero(total) == IF total = {} \/ total = {0} THEN {0} ELSE total

\* UsageService(tenant_id).get_monthly_summary(db, year, month, tz); adding
\* to a total that is None raises TypeError. db is table tenant_usages and
\* database the MongoDB database the call reads
get_monthly_summary_in(db, database, tenant_id, year, month, tz) ==
    LET adjusted_start_date == AdjustedStart(year, month, tz)
        adjusted_end_date == AdjustedEnd(year, month, tz)
        rows == LedgerRowsIn(db, tenant_id, adjusted_start_date, adjusted_end_date)
        total_tokens == OrZero(func_sum(rows, [r \in rows |-> r.tokens_used]))
        total_price == OrZero(func_sum(rows, [r \in rows |-> r.total_price]))
        mongo_records ==
            get_data_for_date_range_in(database, tenant_id,
                                       adjusted_start_date, adjusted_end_date)
    IN IF total_tokens = {} THEN Raise("TypeError")
       ELSE IF \E rec \in mongo_records : ~MongoRecordPrice(rec).ok
       THEN MongoRecordPrice(CHOOSE rec \in mongo_records : ~MongoRecordPrice(rec).ok)
       ELSE IF total_price = {} THEN Raise("TypeError")
       ELSE Ok([tenant_id |-> tenant_id,
                year |-> year,
                month |-> month,
                total_tokens_used |->
                    (CHOOSE v \in total_tokens : TRUE)
                    + SumOver(mongo_records,
                              [rec \in mongo_records |-> rec.total_tokens]),
                total_price |->
                    (CHOOSE v \in total_price : TRUE)
                    + SumOver(mongo_records,
                              [rec \in mongo_records |-> MongoRecordPrice(rec).value])])

\* get_monthly_summary on the two stores as they are now
get_monthly_summary(tenant_id, year, month, tz) ==
    get_monthly_summary_in(ledger, mongo, tenant_id, year, month, tz)

\* MongoDBService.aggregate_monthly_data: $match on the UTC month, $project
\* of document_total_price, $group into one document; no document matched
\* gives no group, answered as (0, 0.0)
aggregate_monthly_data(tenant_id, year, month) ==
    LET w == AggregateMonthlyWindow(year, month).value
        matched == { d \in get_tenant_collection(tenant_id) :
                       d.created_at >= w.start_date /\ d.created_at < w.end_date }
        aggregation_result ==
            IF matched = {} THEN << >>
            ELSE << [total_tokens_used |->
                        SumOver(matched, [d \in matched |-> d.total_tokens]),
                     total_price |->
                        SumOver(matched, [d \in matched |-> document_total_price(d)])] >>
    IN IF aggregation_result = << >>
       THEN <<0, 0>>
       ELSE <<aggregation_result[1].total_tokens_used, aggregation_result[1].total_price>>

\* start_date and end_date of get_monthly_usage: the UTC calendar month,
\* both ends included
MonthlyUsageWindow(year, month) ==
    [start_date |-> datetime(year, month, 1),
     end_date |-> IF month = 12
                  THEN datetime(year + 1, 1, 1) - timedelta_seconds(1)
                  ELSE datetime(year, month + 1, 1) - timedelta_seconds(1)]

\* UsageService(tenant_id).get_monthly_usage(db, year, month): the variant
\* without a timezone offset
get_monthly_usage(tenant_id, year, month) ==
    LET w == MonthlyUsageWindow(year, month)
    IN { r \in ledger :
           r.tenant_id = tenant_id /\ r.date >= w.start_date /\ r.date <= w.end_date }

\* the keys of daily_data: the local calendar days of the records
AdjustedDate(date, tz) == DayNumber(date + timedelta_minutes(tz))

\* UsageService(tenant_id).get_combined_daily_usage(db, year, month, tz)
get_combined_daily_usage_in(db, database, tenant_id, year, month, tz) ==
    LET start_date == AdjustedStart(year, month, tz)
        end_date == AdjustedEnd(year, month, tz)
        mysql_records == LedgerRowsIn(db, tenant_id, start_date, end_date)
        mongo_records ==
            get_data_for_date_range_in(database, tenant_id, start_date, end_date)
        from_mysql ==
            { [source |-> "mysql", id |-> r.id, date |-> r.date,
               tokens_used |-> r.tokens_used, total_price |-> r.total_price] :
              r \in mysql_records }
        from_mongo ==
            { [source |-> "mongo", id |-> rec._id, date |-> rec.created_at,
               tokens_used |-> rec.total_tokens,
               total_price |-> MongoRecordPrice(rec).value] :
              rec \in mongo_records }
        all_records == from_mysql \cup from_mongo
        days == { AdjustedDate(rec.date, tz) : rec \in all_records }
        OnDay(d) == { rec \in all_records : AdjustedDate(rec.date, tz) = d }
        keys == Sorted(days)
    IN IF \E rec \in mongo_records : ~MongoRecordPrice(rec).ok
       THEN MongoRecordPrice(CHOOSE rec \in mongo_records : ~MongoRecordPrice(rec).ok)
       ELSE Ok([i \in 1..Len(keys) |->
                  [date |-> strftime(keys[i]),
                   tokens_used |-> SumOver(OnDay(keys[i]), [rec \in all_records |-> rec.tokens_used]),
                   total_price |-> SumOver(OnDay(keys[i]), [rec \in all_records |-> rec.total_price])]])

\* get_combined_daily_usage on the two stores as they are now
get_combined_daily_usage(tenant_id, year, month, tz) ==
    get_combined_daily_usage_in(ledger, mongo, tenant_id, year, month, tz)

\* a faulty variant of get_monthly_summary_io: an event store that cannot be
\* read counted as holding nothing
get_monthly_summary_ledger_only(tenant_id, year, month, tz, mysql_ok, mongo_ok) ==
    IF ~mysql_ok THEN Raise("SQLAlchemyError")
    ELSE IF ~mongo_ok
    THEN LET rows == LedgerRows(tenant_id, AdjustedStart(year, month, tz),
                                AdjustedEnd(year, month, tz))
         IN Ok([tenant_id |-> tenant_id, year |-> year, month |-> month,
                total_tokens_used |-> SumOver(rows, [r \in rows |-> r.tokens_used]),
                total_price |-> SumOver(rows, [r \in rows |-> r.total_price])])
    ELSE get_monthly_summary(tenant_id, year, month, tz)

\* get_monthly_summary when a query can fail: db.execute raises a
\* SQLAlchemyError, which the except clause re-raises; a failure of
\* get_data_for_date_range is no SQLAlchemyError and propagates as it is
get_monthly_summary_io(tenant_id, year, month, tz, mysql_ok, mongo_ok) ==
    IF ~mysql_ok THEN Raise("SQLAlchemyError")
    ELSE IF ~mongo_ok THEN Raise("PyMongoError")
    ELSE get_monthly_summary(tenant_id, year, month, tz)

\* get_combined_daily_usage when a query can fail: nothing is caught
get_combined_daily_usage_io(tenant_id, year, month, tz, mysql_ok, mongo_ok) ==
    IF ~mysql_ok THEN Raise("SQLAlchemyError")
    ELSE IF ~mongo_ok THEN Raise("PyMongoError")
    ELSE get_combined_daily_usage(tenant_id, year, month, tz)

\* the response of get_monthly_summary_endpoint to the outcome of the
\* service call: "except Exception" answers 500
MonthlySummaryResponse(summary) ==
    IF summary.ok
    THEN [status |-> 200, body |-> summary.value]
    ELSE [status |-> 500, body |-> "Error calculating monthly summary."]

\* the response of get_daily_usage_endpoint to the outcome of the service call
DailyUsageResponse(daily_usage) ==
    IF ~daily_usage.ok
    THEN [status |-> 500, body |-> "Error fetching daily usage records."]
    ELSE IF daily_usage.value = << >>
    THEN [status |-> 404,
          body |-> "No daily usage records found for the specified month"]
    ELSE [status |-> 200, body |-> daily_usage.value]

\* GET /api/v1/usage/monthly/summary/: the offset is never passed on
get_monthly_summary_endpoint(tenant_id, year, month) ==
    MonthlySummaryResponse(get_monthly_summary(tenant_id, year, month, 0))

\* GET /api/v1/usage/monthly/daily/
get_daily_usage_endpoint(tenant_id, year, month, tz) ==
    DailyUsageResponse(get_combined_daily_usage(tenant_id, year, month, tz))

\* what the two queries of an aggregation call returned, and the price the
\* call puts on each fetched event
Fetched(tenant_id, year, month, tz) ==
    LET start_date == AdjustedStart(year, month, tz)
        end_date == AdjustedEnd(year, month, tz)
        mongo_records == get_data_for_date_range(tenant_id, start_date, end_date)
    IN [rows |-> { r.id : r \in LedgerRows(tenant_id, start_date, end_date) },
        records |-> { rec._id : rec \in mongo_records },
        prices |-> [oid \in { rec._id : rec \in mongo_records } |->
                      MongoRecordPrice(CHOOSE rec \in mongo_records : rec._id = oid)]]

NoCall == [op |-> None]

(***************************************************************************)
(* Usage operations                                                        *)
(***************************************************************************)
RecordsStored == (nextUsageId - 1) + (nextOid - 1)

\* a faulty variant of TotalPrice: the unit price stored as the total
TotalPriceUnit(usage_data) == usage_data.per_token_price

\* total_price = usage_data.tokens_used * usage_data.per_token_price
TotalPrice(usage_data) == usage_data.tokens_used * usage_data.per_token_price

\* a faulty variant of LedgerAfterInsert: the row written over the tenant's
\* row of the same date
LedgerAfterUpsert(new_usage) ==
    { r \in ledger : r.tenant_id # new_usage.tenant_id \/ r.date # new_usage.date }
    \cup {new_usage}

\* db.add(new_usage); await db.commit(): one INSERT into tenant_usages
LedgerAfterInsert(new_usage) == ledger \cup {new_usage}

\* POST /api/v1/usage/: UsageService.insert_usage_record; commit_ok is
\* whether the database accepts the commit. UsageCreate puts no bound on
\* tokens_used or per_token_price.
InsertUsage(tenant_id, date, usage_data, commit_ok) ==
    /\ RecordsStored < MaxRecords
    /\ LET total_price == TotalPrice(usage_data)
           new_usage == [id |-> nextUsageId,
                         date |-> date,
                         tenant_id |-> tenant_id,
                         tokens_used |-> usage_data.tokens_used,
                         per_token_price |-> usage_data.per_token_price,
                         total_price |-> total_price]
           request == [tenant_id |-> tenant_id, date |-> date,
                       usage_data |-> usage_data]
       IN IF commit_ok
          THEN /\ ledger' = LedgerAfterInsert(new_usage)
               /\ nextUsageId' = nextUsageId + 1
               /\ usageResp' = [op |-> "insert_usage_record", request |-> request,
                                status |-> 201, body |-> new_usage]
          ELSE /\ UNCHANGED <<ledger, nextUsageId>>
               /\ usageResp' = [op |-> "insert_usage_record", request |-> request,
                                status |-> 500,
                                body |-> "Error inserting usage record."]
    /\ UNCHANGED <<mongo, nextOid, tenantVars, docVars, billingVars>>

\* MongoDBService.save_ai_reply
SaveAIReply(tenant_id, created_at, tokens) ==
    /\ RecordsStored < MaxRecords
    /\ mongo' = [mongo EXCEPT ![CollectionName(tenant_id)] =
                    @ \cup {AIReplyDocument(nextOid, tenant_id, created_at, tokens)}]
    /\ nextOid' = nextOid + 1
    /\ usageResp' = [op |-> "save_ai_reply", inserted_id |-> nextOid]
    /\ UNCHANGED <<ledger, nextUsageId, tenantVars, docVars, billingVars>>

\* the instant the process imported app/schemas/ai_reply.py: the default
\* of created_at is the value datetime.now(timezone.utc) had when the class
\* body was executed
AIReplyCreatedAtDefault == datetime(EpochYear, 12, 1)

\* AIReply.from_openai_completion(...) at instant now, then save_ai_reply:
\* cls(...) is called without created_at, so the field takes its default
SaveAIReplyFromCompletion(tenant_id, now, tokens) ==
    /\ RecordsStored < MaxRecords
    /\ now >= AIReplyCreatedAtDefault
    /\ mongo' = [mongo EXCEPT ![CollectionName(tenant_id)] =
                    @ \cup {AIReplyDocument(nextOid, tenant_id,
                                            AIReplyCreatedAtDefault, tokens)}]
    /\ nextOid' = nextOid + 1
    /\ usageResp' = [op |-> "from_openai_completion", tenant_id |-> tenant_id,
                     now |-> now, inserted_id |-> nextOid]
    /\ UNCHANGED <<ledger, nextUsageId, tenantVars, docVars, billingVars>>

\* the ids update_feedback is called with: those of the stored events and
\* one no event carries
ReplyIds == 1..(MaxRecords + 1)

\* a faulty variant of update_feedback: the filter on _id left out of an
\* update of every match
update_feedback_any_id(collection, reply_id, feedback) ==
    {[d EXCEPT !.customer_feedback = {feedback}] : d \in collection}

\* update_one({"_id": ObjectId(reply_id)}, {"$set": {"customer_feedback":
\* feedback}}): the collection afterwards
update_feedback(collection, reply_id, feedback) ==
    {IF d._id = reply_id THEN [d EXCEPT !.customer_feedback = {feedback}] ELSE d :
        d \in collection}

\* MongoDBService.update_feedback: returns result.modified_count > 0
UpdateFeedback(reply_id, tenant_id, feedback) ==
    LET collection == get_tenant_collection(tenant_id)
        after == update_feedback(collection, reply_id, feedback)
    IN /\ mongo' = [mongo EXCEPT ![CollectionName(tenant_id)] = after]
       /\ usageResp' = [op |-> "update_feedback", reply_id |-> reply_id,
                        tenant_id |-> tenant_id, feedback |-> feedback,
                        modified |-> after # collection]
       /\ UNCHANGED <<ledger, nextUsageId, nextOid, tenantVars, docVars, billingVars>>

\* a call of UsageService.get_monthly_summary
GetMonthlySummary(tenant_id, year, month, tz) ==
    /\ usageResp' = [op |-> "get_monthly_summary",
                     tenant_id |-> tenant_id, year |-> year, month |-> month,
                     tz |-> tz,
                     result |-> get_monthly_summary(tenant_id, year, month, tz),
                     fetched |-> Fetched(tenant_id, year, month, tz)]
    /\ UNCHANGED <<ledger, nextUsageId, mongo, nextOid, tenantVars, docVars, billingVars>>

\* a call of UsageService.get_monthly_usage: the rows it returns
GetMonthlyUsage(tenant_id, year, month) ==
    /\ usageResp' = [op |-> "get_monthly_usage",
                     tenant_id |-> tenant_id, year |-> year, month |-> month,
                     usages |-> get_monthly_usage(tenant_id, year, month)]
    /\ UNCHANGED <<ledger, nextUsageId, mongo, nextOid, tenantVars, docVars, billingVars>>

\* a call of MongoDBService.aggregate_monthly_data
AggregateMonthlyData(tenant_id, year, month) ==
    /\ usageResp' = [op |-> "aggregate_monthly_data",
                     tenant_id |-> tenant_id, year |-> year, month |-> month,
                     result |-> aggregate_monthly_data(tenant_id, year, month)]
    /\ UNCHANGED <<ledger, nextUsageId, mongo, nextOid, tenantVars, docVars, billingVars>>

\* the routers main.py includes in the application
IncludedRouters ==
    {"upload_router", "knowlege_base_router", "tenant_doc_router", "usage_router"}

\* the methods class UsageService defines
UsageServiceMethods ==
    {"get_monthly_usage", "get_monthly_summary", "get_combined_daily_usage",
     "insert_usage_record"}

\* attribute access on a UsageService object
UsageServiceAttr(name) ==
    IF name \in UsageServiceMethods THEN Ok(name) ELSE Raise("AttributeError")

\* the handler of GET /api/v1/aggregation/monthly/: the attribute access
\* service.get_combined_monthly_aggregation is inside the try block
get_real_time_monthly_aggregation(tenant_id) ==
    LET method == UsageServiceAttr("get_combined_monthly_aggregation")
    IN IF tenant_id = ""
       THEN [status |-> 400, body |-> "tenant_id is required"]
       ELSE IF ~method.ok
       THEN [status |-> 500, body |-> "Error aggregating usage data."]
       ELSE [status |-> 200, body |-> method.value]

\* a request GET /api/v1/aggregation/monthly/?tenant_id=: a path of a router
\* that is not included has no route
AggregationMonthlyEndpoint(tenant_id) ==
    /\ usageResp' = [op |-> "get_real_time_monthly_aggregation",
                     tenant_id |-> tenant_id,
                     response |->
                         IF "aggregation_router" \in IncludedRouters
                         THEN get_real_time_monthly_aggregation(tenant_id)
                         ELSE [status |-> 404, body |-> "Not Found"]]
    /\ UNCHANGED <<ledger, nextUsageId, mongo, nextOid, tenantVars, docVars, billingVars>>

\* a request GET /api/v1/usage/monthly/summary/ during which the ledger
\* query succeeds or not (mysql_ok) and the event-store query succeeds or
\* not (mongo_ok)
MonthlySummaryEndpointIO(tenant_id, year, month, mysql_ok, mongo_ok) ==
    /\ usageResp' = [op |-> "get_monthly_summary_endpoint_io",
                     tenant_id |-> tenant_id, year |-> year, month |-> month,
                     tz |-> 0, mysql_ok |-> mysql_ok, mongo_ok |-> mongo_ok,
                     response |->
                         MonthlySummaryResponse(
                             get_monthly_summary_io(tenant_id, year, month, 0,
                                                    mysql_ok, mongo_ok))]
    /\ UNCHANGED <<ledger, nextUsageId, mongo, nextOid, tenantVars, docVars, billingVars>>

\* a request GET /api/v1/usage/monthly/daily/ with the same two outcomes
DailyUsageEndpointIO(tenant_id, year, month, tz, mysql_ok, mongo_ok) ==
    /\ usageResp' = [op |-> "get_daily_usage_endpoint_io",
                     tenant_id |-> tenant_id, year |-> year, month |-> month,
                     tz |-> tz, mysql_ok |-> mysql_ok, mongo_ok |-> mongo_ok,
                     response |->
                         DailyUsageResponse(
                             get_combined_daily_usage_io(tenant_id, year, month, tz,
                                                         mysql_ok, mongo_ok))]
    /\ UNCHANGED <<ledger, nextUsageId, mongo, nextOid, tenantVars, docVars, billingVars>>

\* a request GET /api/v1/usage/monthly/summary/
MonthlySummaryEndpoint(tenant_id, year, month) ==
    /\ usageResp' = [op |-> "get_monthly_summary_endpoint",
                     tenant_id |-> tenant_id, year |-> year, month |-> month,
                     response |-> get_monthly_summary_endpoint(tenant_id, year, month)]
    /\ UNCHANGED <<ledger, nextUsageId, mongo, nextOid, tenantVars, docVars, billingVars>>

\* a request GET /api/v1/usage/monthly/daily/
DailyUsageEndpoint(tenant_id, year, month, tz) ==
    /\ usageResp' = [op |-> "get_daily_usage_endpoint",
                     tenant_id |-> tenant_id, year |-> year, month |-> month,
                     tz |-> tz,
                     response |-> get_daily_usage_endpoint(tenant_id, year, month, tz),
                     fetched |-> Fetched(tenant_id, year, month, tz)]
    /\ UNCHANGED <<ledger, nextUsageId, mongo, nextOid, tenantVars, docVars, billingVars>>

\* the years and months the window computations are applied to
WindowYears == {EpochYear, EpochYear + 1}
WindowMonths == 1..12

\* get_monthly_summary up to its window (lines 45-52)
MonthlySummaryWindow(year, month, tz) ==
    /\ usageResp' = [op |-> "window", fn |-> "get_monthly_summary",
                     year |-> year, month |-> month, tz |-> tz,
                     window |-> SummaryWindow(year, month, tz)]
    /\ UNCHANGED <<ledger, nextUsageId, mongo, nextOid, tenantVars, docVars, billingVars>>

\* get_combined_daily_usage up to its window (lines 93-99)
DailyUsageWindow(year, month, tz) ==
    /\ usageResp' = [op |-> "window", fn |-> "get_combined_daily_usage",
                     year |-> year, month |-> month, tz |-> tz,
                     window |-> SummaryWindow(year, month, tz)]
    /\ UNCHANGED <<ledger, nextUsageId, mongo, nextOid, tenantVars, docVars, billingVars>>

\* aggregate_monthly_data up to its window (lines 111-116)
AggregateMonthlyDataWindow(year, month) ==
    /\ usageResp' = [op |-> "window", fn |-> "aggregate_monthly_data",
                     year |-> year, month |-> month, tz |-> 0,
                     window |-> AggregateMonthlyWindow(year, month)]
    /\ UNCHANGED <<ledger, nextUsageId, mongo, nextOid, tenantVars, docVars, billingVars>>

UsageInit ==
    /\ ledger = {}
    /\ nextUsageId = 1
    /\ mongo = [c \in { CollectionName(t) : t \in UsageTenants } |-> {}]
    /\ nextOid = 1
    /\ usageResp = NoCall

(***************************************************************************)
(* Tenant registry: table tenants and the handlers of main.py.             *)
(*                                                                         *)
(* Every request runs in its own AsyncSession, so in its own transaction.  *)
(* A handler is suspended at an await while the other handlers run; the    *)
(* statements of a transaction become visible to the others at its commit. *)
(* The two SELECTs of check_duplicate read one consistent snapshot         *)
(* (InnoDB's default isolation), so they form one step.                    *)
(***************************************************************************)
Handlers == {"h1", "h2"}

Names == {"acme", "globex"}
Aliases == {"ac", "gx"}

\* the identifiers requests name
TenantIdInputs == { "tenant_" \o ToString(i) : i \in 1..(MaxRequests + 1) }

\* of these, the model lets a request name those handed out so far and the
\* one handed out next, which no row holds yet
NamedTenantIds == { "tenant_" \o ToString(i) : i \in 1..nextTenantId }

\* request bodies of PATCH /tenants/{tenant_id} (TenantUpdateSchema), as
\* tenant_data.dict(exclude_unset=True)
\* the name and alias criteria of the find requests: absent or given
FindNames == {None, "acme"}
FindAliases == {None, "gx"}
FindTenantIds == {None, "tenant_1", "tenant_2"}

UpdateInputs ==
    { [name |-> "globex", active_state |-> TRUE, usage_alert |-> None],
      [alias |-> "gx", active_state |-> FALSE, usage_alert |-> None],
      [name |-> "globex"] }

\* the fields of TenantUpdateSchema declared without a default: a body that
\* leaves one out fails validation
RequiredUpdateFields == {"active_state", "usage_alert"}

\* the columns of table tenants (class Tenant)
TenantColumns == {"id", "tenant_id", "logo", "name", "alias", "active_state"}

NoReq == [op |-> None]
NoTxn == [state |-> None]
NoResp == [op |-> None]

\* a faulty variant of TenantIdValue: the identifier formatted before the id is known
TenantIdValueOfNone(id) == "tenant_" \o None

\* tenant_id_value = f"tenant_{new_tenant.id}"
TenantIdValue(id) == "tenant_" \o ToString(id)

\* Tenant(**tenant_data.model_dump(exclude={"alias_pattern"})) after the
\* INSERT of flush(): id populated, tenant_id still NULL
NewTenant(id, name, alias) ==
    [id |-> id,
     tenant_id |-> None,
     logo |-> "",
     name |-> name,
     alias |-> alias,
     active_state |-> TRUE]

\* a faulty variant of AliasIndexClash: the alias column declared without unique=True
AliasIndexAbsent(alias, id) == FALSE

\* the UNIQUE index on tenants.alias: would a row `id` holding `alias` clash
\* with a committed row
AliasIndexClash(alias, id) ==
    \E r \in tenants : r.alias = alias /\ r.id # id

\* an INSERT or UPDATE of `alias` waits while another transaction holds an
\* uncommitted row with the same alias
AliasLockedByOther(h, alias) ==
    \E o \in Handlers \ {h} :
        /\ txn[o].state = "inserted"
        /\ txn[o].row.alias = alias

\* select(Tenant).where(Tenant.name == name)
RowsByName(name) == { r \in tenants : r.name = name }

\* select(Tenant).where(Tenant.alias == alias)
RowsByAlias(alias) == { r \in tenants : r.alias = alias }

\* select(Tenant).where(Tenant.tenant_id == tenant_id)
RowsByTenantId(tenant_id) == { r \in tenants : r.tenant_id = tenant_id }

\* Result.scalar_one_or_none(); the Optional it returns is kept as a set of
\* at most one row
scalar_one_or_none(rows) ==
    IF Cardinality(rows) > 1 THEN Raise("MultipleResultsFound") ELSE Ok(rows)

\* TenantService.check_duplicate
check_duplicate(name, alias) ==
    LET existing_tenant_name == scalar_one_or_none(RowsByName(name))
        existing_tenant_alias == scalar_one_or_none(RowsByAlias(alias))
    IN IF ~existing_tenant_name.ok THEN existing_tenant_name
       ELSE IF existing_tenant_name.value # {}
       THEN Raise("DuplicateTenantNameException")
       ELSE IF ~existing_tenant_alias.ok THEN existing_tenant_alias
       ELSE IF existing_tenant_alias.value # {}
       THEN Raise("DuplicateTenantAliasException")
       ELSE Ok(None)

\* the except clauses of register_tenant in main.py
RegisterError(exc) ==
    IF exc = "IntegrityError"
    THEN [status |-> 400, error_code |-> "IntegrityError"]
    ELSE IF exc = "DuplicateTenantNameException"
    THEN [status |-> 400, error_code |-> "DUPLICATE_TENANT_NAME"]
    ELSE IF exc = "DuplicateTenantAliasException"
    THEN [status |-> 400, error_code |-> "DUPLICATE_TENANT_ALIAS"]
    ELSE [status |-> 500, error_code |-> None]

\* a faulty variant of delete_tenant_internal: the DELETE filtered on a column that
\* never equals the identifier, so that it matches no row
delete_tenant_internal_wrong_column(tenant_id) ==
    [table |-> tenants, raised |-> TRUE, status |-> 500, rowcount |-> 0]

\* TenantService.delete_tenant_internal: the table it leaves and the
\* HTTPException it raises, if any; a 404 raised inside its try block is
\* caught by its own "except Exception" and re-raised as a 500
delete_tenant_internal(tenant_id) ==
    LET matched == RowsByTenantId(tenant_id)
        rowcount == Cardinality(matched)
    IN IF rowcount = 0
       THEN [table |-> tenants, raised |-> TRUE, status |-> 500,
             rowcount |-> rowcount]
       ELSE [table |-> tenants \ matched, raised |-> FALSE, status |-> 204,
             rowcount |-> rowcount]

\* TenantService.get_tenant_by_alias_or_name: the branches test name and
\* alias before tenant_id; "not x" holds of None
get_tenant_by_alias_or_name(name, alias, tenant_id) ==
    IF name = None /\ alias = None /\ tenant_id = None
    THEN Raise("HTTPException400")
    ELSE LET query ==
                 IF name # None /\ alias # None
                 THEN RowsByName(name) \cup RowsByAlias(alias)
                 ELSE IF name # None THEN RowsByName(name)
                 ELSE IF alias # None THEN RowsByAlias(alias)
                 ELSE RowsByTenantId(tenant_id)
         IN scalar_one_or_none(query)

\* GET /api/v1/tenants/find: the response, with the ids of the rows found
get_tenant(name, alias, tenant_id) ==
    LET tenant == get_tenant_by_alias_or_name(name, alias, tenant_id)
    IN IF ~tenant.ok
       THEN [status |-> IF tenant.exc = "HTTPException400" THEN 400 ELSE 500,
             found |-> {}]
       ELSE IF tenant.value = {}
       THEN [status |-> 404, found |-> {}]
       ELSE [status |-> 200, found |-> { r.id : r \in tenant.value }]

\* the handler returns or raises: its session is closed
Finish(h, response) ==
    /\ pc' = [pc EXCEPT ![h] = "idle"]
    /\ req' = [req EXCEPT ![h] = NoReq]
    /\ txn' = [txn EXCEPT ![h] = NoTxn]
    /\ resp' = [handler |-> h] @@ response

\* the response of POST /tenants; `inserted` holds the ids of the rows the
\* call inserted, name_rows and alias_rows what its pre-check queries matched
RegisterResponse(request, outcome, exc, inserted, name_rows, alias_rows) ==
    [op |-> "register",
     name |-> request.name,
     alias |-> request.alias,
     status |-> outcome.status,
     error_code |-> outcome.error_code,
     exc |-> exc,
     inserted |-> inserted,
     name_rows |-> name_rows,
     alias_rows |-> alias_rows]

\* POST /tenants, up to the end of check_duplicate
RegisterCheck(h, name, alias, has_logo) ==
    /\ pc[h] = "idle"
    /\ requests < MaxRequests
    /\ requests' = requests + 1
    /\ LET request == [op |-> "register", name |-> name, alias |-> alias,
                       has_logo |-> has_logo,
                       name_rows |-> Cardinality(RowsByName(name)),
                       alias_rows |-> Cardinality(RowsByAlias(alias))]
           checked == check_duplicate(name, alias)
       IN IF checked.ok
          THEN /\ pc' = [pc EXCEPT ![h] = "flush"]
               /\ req' = [req EXCEPT ![h] = request]
               /\ UNCHANGED <<txn, resp>>
          ELSE Finish(h, RegisterResponse(request, RegisterError(checked.exc),
                                          checked.exc, {},
                                          request.name_rows, request.alias_rows))
    /\ UNCHANGED <<tenants, nextTenantId, usageVars, docVars, billingVars>>

\* db.add(new_tenant); await db.flush(): the INSERT, inside the transaction
RegisterFlush(h) ==
    /\ pc[h] = "flush"
    /\ ~AliasLockedByOther(h, req[h].alias)
    /\ nextTenantId' = nextTenantId + 1
    /\ IF AliasIndexClash(req[h].alias, nextTenantId)
       THEN Finish(h, RegisterResponse(req[h], RegisterError("IntegrityError"),
                                       "IntegrityError", {},
                                       req[h].name_rows, req[h].alias_rows))
       ELSE /\ pc' = [pc EXCEPT ![h] = "commit"]
            /\ txn' = [txn EXCEPT ![h] =
                          [state |-> "inserted",
                           row |-> NewTenant(nextTenantId, req[h].name, req[h].alias)]]
            /\ UNCHANGED <<req, resp>>
    /\ UNCHANGED <<tenants, requests, usageVars, docVars, billingVars>>

\* new_tenant.tenant_id = tenant_id_value; await db.commit()
RegisterCommit(h) ==
    /\ pc[h] = "commit"
    /\ LET new_tenant == [txn[h].row EXCEPT !.tenant_id = TenantIdValue(txn[h].row.id)]
       IN /\ tenants' = tenants \cup {new_tenant}
          /\ txn' = [txn EXCEPT ![h] = [state |-> "committed", row |-> new_tenant]]
    /\ pc' = [pc EXCEPT ![h] = IF req[h].has_logo THEN "upload" ELSE "return"]
    /\ UNCHANGED <<nextTenantId, req, resp, requests, usageVars, docVars, billingVars>>

\* upload_to_s3: the file key f"tenant_logos/{tenant_id}/{file.filename}"
upload_to_s3(tenant_id) == "tenant_logos/" \o tenant_id \o "/logo.png"

\* the row of this session's new_tenant, if it is still in the table
OwnRow(h) == { r \in tenants : r.id = txn[h].row.id }

\* await db.refresh(new_tenant) of the service, then upload_to_s3 inside
\* the try of main.py; upload_ok is whether S3 accepts the logo
RegisterUpload(h, upload_ok) ==
    /\ pc[h] = "upload"
    /\ IF OwnRow(h) = {}
       THEN Finish(h, RegisterResponse(req[h], RegisterError("InvalidRequestError"),
                                       "InvalidRequestError", {txn[h].row.id},
                                       req[h].name_rows, req[h].alias_rows))
       ELSE /\ pc' = [pc EXCEPT ![h] = IF upload_ok THEN "return" ELSE "compensate"]
            /\ UNCHANGED <<req, txn, resp>>
    /\ UNCHANGED <<tenants, nextTenantId, requests, usageVars, docVars, billingVars>>

\* except Exception: await TenantService.delete_tenant_internal(...);
\* raise HTTPException(500), which the outer "except Exception" turns
\* into a 500 again
RegisterCompensate(h) ==
    /\ pc[h] = "compensate"
    /\ LET deleted == delete_tenant_internal(txn[h].row.tenant_id)
       IN /\ tenants' = deleted.table
          /\ Finish(h, RegisterResponse(req[h], RegisterError("HTTPException"),
                                        "UploadFailed", {txn[h].row.id},
                                        req[h].name_rows, req[h].alias_rows))
    /\ UNCHANGED <<nextTenantId, requests, usageVars, docVars, billingVars>>

\* new_tenant.logo = logo_path; await db.commit(); await db.refresh(new_tenant);
\* return new_tenant. The UPDATE of the logo, or the refresh, finds no row
\* when another request has deleted it.
RegisterReturn(h) ==
    /\ pc[h] = "return"
    /\ IF OwnRow(h) = {}
       THEN /\ Finish(h, RegisterResponse(req[h], RegisterError("StaleDataError"),
                                          "StaleDataError", {txn[h].row.id},
                                          req[h].name_rows, req[h].alias_rows))
            /\ UNCHANGED tenants
       ELSE LET current == CHOOSE r \in OwnRow(h) : TRUE
                stored == IF req[h].has_logo
                          THEN [current EXCEPT !.logo = upload_to_s3(current.tenant_id)]
                          ELSE current
            IN /\ tenants' = (tenants \ {current}) \cup {stored}
               /\ Finish(h, RegisterResponse(req[h],
                                             [status |-> 200, error_code |-> None],
                                             None, {stored.id},
                                             req[h].name_rows, req[h].alias_rows))
    /\ UNCHANGED <<nextTenantId, requests, usageVars, docVars, billingVars>>

\* DELETE /tenants/{tenant_id}
DeleteTenant(h, tenant_id) ==
    /\ pc[h] = "idle"
    /\ tenant_id \in NamedTenantIds
    /\ requests < MaxRequests
    /\ requests' = requests + 1
    /\ LET deleted == delete_tenant_internal(tenant_id)
       IN /\ tenants' = deleted.table
          /\ Finish(h, [op |-> "delete", tenant_id |-> tenant_id,
                        status |-> deleted.status,
                        rowcount |-> deleted.rowcount])
    /\ UNCHANGED <<nextTenantId, usageVars, docVars, billingVars>>

\* a request GET /api/v1/tenants/find; id_rows holds the ids of the rows
\* whose tenant_id is the one asked for, at the time of the query
FindTenant(h, name, alias, tenant_id) ==
    /\ pc[h] = "idle"
    /\ tenant_id \in NamedTenantIds \cup {None}
    /\ requests < MaxRequests
    /\ requests' = requests + 1
    /\ LET response == get_tenant(name, alias, tenant_id)
       IN Finish(h, [op |-> "find", name |-> name, alias |-> alias,
                     tenant_id |-> tenant_id,
                     status |-> response.status,
                     found |-> response.found,
                     id_rows |-> { r.id : r \in RowsByTenantId(tenant_id) }])
    /\ UNCHANGED <<tenants, nextTenantId, usageVars, docVars, billingVars>>

\* PATCH /tenants/{tenant_id}, up to the SELECT of the tenant
UpdateSelect(h, tenant_id, tenant_data) ==
    /\ pc[h] = "idle"
    /\ tenant_id \in NamedTenantIds
    /\ requests < MaxRequests
    /\ requests' = requests + 1
    /\ LET tenant == scalar_one_or_none(RowsByTenantId(tenant_id))
           answer(status, exc) ==
               Finish(h, [op |-> "update", tenant_id |-> tenant_id,
                          status |-> status, exc |-> exc])
       IN IF ~(RequiredUpdateFields \subseteq DOMAIN tenant_data)
          THEN answer(422, "RequestValidationError")
          ELSE IF ~tenant.ok THEN answer(500, tenant.exc)
          ELSE IF tenant.value = {} THEN answer(404, "HTTPException")
          ELSE /\ pc' = [pc EXCEPT ![h] = "update"]
               /\ req' = [req EXCEPT ![h] =
                             [op |-> "update", tenant_id |-> tenant_id,
                              tenant_data |-> tenant_data]]
               /\ txn' = [txn EXCEPT ![h] = [state |-> "loaded",
                              row |-> CHOOSE r \in tenant.value : TRUE]]
               /\ UNCHANGED resp
    /\ UNCHANGED <<tenants, nextTenantId, usageVars, docVars, billingVars>>

\* setattr(tenant, field, value) for the supplied fields: the columns the
\* UPDATE sets are those whose value differs from the loaded one
ChangedColumns(loaded, tenant_data) ==
    { f \in DOMAIN tenant_data \cap TenantColumns : tenant_data[f] # loaded[f] }

\* await db.commit() of update_tenant: UPDATE tenants SET ... WHERE id = :id
UpdateCommit(h) ==
    /\ pc[h] = "update"
    /\ LET loaded == txn[h].row
           tenant_data == req[h].tenant_data
           changed == ChangedColumns(loaded, tenant_data)
           new_alias == IF "alias" \in changed THEN tenant_data.alias ELSE loaded.alias
           answer(status, exc) ==
               Finish(h, [op |-> "update", tenant_id |-> req[h].tenant_id,
                          status |-> status, exc |-> exc])
       IN /\ "alias" \in changed => ~AliasLockedByOther(h, new_alias)
          /\ IF changed = {}
             THEN /\ UNCHANGED tenants
                  /\ IF OwnRow(h) = {}
                     THEN answer(500, "InvalidRequestError")
                     ELSE answer(200, None)
             ELSE IF OwnRow(h) = {}
             THEN /\ UNCHANGED tenants
                  /\ answer(500, "StaleDataError")
             ELSE IF "alias" \in changed /\ AliasIndexClash(new_alias, loaded.id)
             THEN /\ UNCHANGED tenants
                  /\ answer(500, "IntegrityError")
             ELSE LET current == CHOOSE r \in OwnRow(h) : TRUE
                      stored == [f \in DOMAIN current |->
                                   IF f \in changed THEN tenant_data[f] ELSE current[f]]
                  IN /\ tenants' = (tenants \ {current}) \cup {stored}
                     /\ answer(200, None)
    /\ UNCHANGED <<nextTenantId, requests, usageVars, docVars, billingVars>>

TenantInit ==
    /\ tenants = {}
    /\ nextTenantId = 1
    /\ requests = 0
    /\ pc = [h \in Handlers |-> "idle"]
    /\ req = [h \in Handlers |-> NoReq]
    /\ txn = [h \in Handlers |-> NoTxn]
    /\ resp = NoResp

TenantNext ==
    \E h \in Handlers :
        \/ \E n \in Names, a \in Aliases, l \in BOOLEAN : RegisterCheck(h, n, a, l)
        \/ RegisterFlush(h)
        \/ RegisterCommit(h)
        \/ \E ok \in BOOLEAN : RegisterUpload(h, ok)
        \/ RegisterCompensate(h)
        \/ RegisterReturn(h)
        \/ \E t \in TenantIdInputs : DeleteTenant(h, t)
        \/ \E n \in FindNames, a \in FindAliases, t \in FindTenantIds :
              FindTenant(h, n, a, t)
        \/ \E t \in TenantIdInputs, d \in UpdateInputs : UpdateSelect(h, t, d)
        \/ UpdateCommit(h)

(***************************************************************************)
(* Tenant documents: table tenant_docs and the code paths that insert into *)
(* it. Every create runs in a session of its own.                          *)
(***************************************************************************)
DocHandlers == {"d1", "d2"}

DocTenants == {"tenant_7"}

DocNames == {"a.pdf", "b.pdf"}

NumEntries == {3, 5}

\* who creates: POST /api/v1/tenant_docs/, the Celery task process_file,
\* the consumer of the completion queue
DocKinds == {"http", "worker", "message"}

NoDocReq == [kind |-> "None"]

NoDocResp == [h |-> "None"]

\* a faulty variant of unique_tenant_doc: the table without the constraint
unique_tenant_doc_absent(rows, tenant_id, doc_name) == FALSE

\* UniqueConstraint('tenant_id', 'doc_name'): rows holds the key already
unique_tenant_doc(rows, tenant_id, doc_name) ==
    \E r \in rows : r.tenant_id = tenant_id /\ r.doc_name = doc_name

\* an insert of the key has to wait for another transaction's uncommitted
\* insert of the same key
DocKeyLockedByOther(h) ==
    \E h2 \in DocHandlers \ {h} :
        unique_tenant_doc(docTxn[h2], docReq[h].tenant_id, docReq[h].doc_name)

\* the end of a create: the outcome, and for the HTTP create its status
DocFinish(h, outcome, status) ==
    /\ docPc' = [docPc EXCEPT ![h] = "idle"]
    /\ docTxn' = [docTxn EXCEPT ![h] = {}]
    /\ docReq' = [docReq EXCEPT ![h] = NoDocReq]
    /\ docResp' = [h |-> h, kind |-> docReq[h].kind,
                   tenant_id |-> docReq[h].tenant_id,
                   doc_name |-> docReq[h].doc_name,
                   num_entries |-> docReq[h].num_entries,
                   at |-> docPc[h], outcome |-> outcome,
                   status |-> IF docReq[h].kind = "http" THEN {status} ELSE {}]

\* a create starts: the HTTP create and the task first run
\* TenantDocService.create_tenant_doc (the task inside process_tenant_data);
\* process_message enters "async with get_db()"
DocCreateStart(h, kind, tenant_id, doc_name, num_entries) ==
    /\ docPc[h] = "idle"
    /\ docRequests < MaxRequests
    /\ docRequests' = docRequests + 1
    /\ docReq' = [docReq EXCEPT ![h] =
                     [kind |-> kind, stage |-> "service", tenant_id |-> tenant_id,
                      doc_name |-> doc_name, num_entries |-> num_entries]]
    /\ docPc' = [docPc EXCEPT ![h] =
                    IF kind = "message" THEN "session" ELSE "select"]
    /\ UNCHANGED <<docs, nextDocId, docTxn, docResp, usageVars, tenantVars,
                   billingVars>>

\* process_message: get_db() is an async generator, not a context manager,
\* so "async with" raises TypeError, which "except Exception" logs
ProcessMessageSession(h) ==
    /\ docPc[h] = "session"
    /\ DocFinish(h, "failed", 500)
    /\ UNCHANGED <<docs, nextDocId, docRequests, usageVars, tenantVars,
                   billingVars>>

\* create_tenant_doc: the select and the test of existing_doc
DocSelect(h) ==
    /\ docPc[h] = "select"
    /\ IF \E r \in docs : /\ r.tenant_id = docReq[h].tenant_id
                          /\ r.doc_name = docReq[h].doc_name
       THEN DocFinish(h, IF docReq[h].kind = "http" THEN "conflict" ELSE "failed",
                      400)
       ELSE /\ docPc' = [docPc EXCEPT ![h] = "flush"]
            /\ UNCHANGED <<docReq, docTxn, docResp>>
    /\ UNCHANGED <<docs, nextDocId, docRequests, usageVars, tenantVars,
                   billingVars>>

\* the INSERT: db.flush() of create_tenant_doc, or the flush inside
\* session.commit() of the task; a duplicate key is an IntegrityError
DocFlush(h) ==
    /\ docPc[h] = "flush"
    /\ ~DocKeyLockedByOther(h)
    /\ IF unique_tenant_doc(docs, docReq[h].tenant_id, docReq[h].doc_name)
       THEN /\ DocFinish(h, IF docReq[h].kind = "http" THEN "conflict"
                                                        ELSE "failed", 400)
            /\ UNCHANGED nextDocId
       ELSE /\ docTxn' = [docTxn EXCEPT ![h] =
                            {[id |-> nextDocId,
                              tenant_id |-> docReq[h].tenant_id,
                              doc_name |-> docReq[h].doc_name,
                              num_entries |-> docReq[h].num_entries]}]
            /\ nextDocId' = nextDocId + 1
            /\ docPc' = [docPc EXCEPT ![h] = "commit"]
            /\ UNCHANGED <<docReq, docResp>>
    /\ UNCHANGED <<docs, docRequests, usageVars, tenantVars, billingVars>>

\* the COMMIT; the task then adds a TenantDoc of its own for the same file
\* in its own session
DocCommit(h) ==
    /\ docPc[h] = "commit"
    /\ docs' = docs \cup docTxn[h]
    /\ IF docReq[h].kind = "worker" /\ docReq[h].stage = "service"
       THEN /\ docReq' = [docReq EXCEPT ![h].stage = "direct"]
            /\ docTxn' = [docTxn EXCEPT ![h] = {}]
            /\ docPc' = [docPc EXCEPT ![h] = "flush"]
            /\ UNCHANGED docResp
       ELSE DocFinish(h, "created", 200)
    /\ UNCHANGED <<nextDocId, docRequests, usageVars, tenantVars, billingVars>>

DocInit ==
    /\ docs = {}
    /\ nextDocId = 1
    /\ docRequests = 0
    /\ docPc = [h \in DocHandlers |-> "idle"]
    /\ docReq = [h \in DocHandlers |-> NoDocReq]
    /\ docTxn = [h \in DocHandlers |-> {}]
    /\ docResp = NoDocResp

DocNext ==
    \/ \E h \in DocHandlers, k \in DocKinds, t \in DocTenants, d \in DocNames,
          n \in NumEntries : DocCreateStart(h, k, t, d, n)
    \/ \E h \in DocHandlers : ProcessMessageSession(h)
    \/ \E h \in DocHandlers : DocSelect(h)
    \/ \E h \in DocHandlers : DocFlush(h)
    \/ \E h \in DocHandlers : DocCommit(h)

(***************************************************************************)
(* Billing settings: table billings and the handlers                       *)
(* PATCH / GET /api/v1/tenants/{tenant_id}/billing.                        *)
(***************************************************************************)
BillingHandlers == {"b1", "b2"}

BillingTenants == {"1", "2"}

\* usage_alert of BillingUpdateSchema: absent or a threshold
UsageAlerts == {{}, {100}, {200}}

\* the attributes of class Billing
BillingAttributes ==
    {"id", "tenant_id", "usage_alert", "created_at", "updated_at", "tenant"}

\* the keys of BillingCreateSchema(...).dict()
BillingCreateKeys == {"usage_alert", "total_usage", "total_price", "tenant_id"}

NoBillReq == [tenant_id |-> "None"]

NoBillResp == [op |-> "None"]

\* BillingService.get_billing on the committed rows: no unique constraint
\* covers tenant_id, and scalar_one_or_none raises on two rows
get_billing(tenant_id) ==
    LET rows == {r \in billings : r.tenant_id = tenant_id}
    IN IF rows = {} THEN Raise("HTTPException404")
       ELSE IF Cardinality(rows) > 1 THEN Raise("MultipleResultsFound")
       ELSE Ok(rows)

\* the status a handler without a try block answers get_billing's outcome with
BillingStatus(result) ==
    IF result.ok THEN 200
    ELSE IF result.exc = "HTTPException404" THEN 404
    ELSE 500

BillFinish(h, op, status) ==
    /\ billPc' = [billPc EXCEPT ![h] = "idle"]
    /\ billReq' = [billReq EXCEPT ![h] = NoBillReq]
    /\ billResp' = [op |-> op, handler |-> h,
                    tenant_id |-> billReq[h].tenant_id, status |-> status]

\* set_or_update_billing up to the outcome of its first get_billing
PatchBillingGet(h, tenant_id, usage_alert) ==
    /\ billPc[h] = "idle"
    /\ LET billing == get_billing(tenant_id)
       IN IF ~billing.ok /\ billing.exc # "HTTPException404"
          THEN /\ billPc' = billPc
               /\ billReq' = billReq
               /\ billResp' = [op |-> "set_or_update_billing", handler |-> h,
                               tenant_id |-> tenant_id, status |-> 500]
          ELSE /\ billPc' = [billPc EXCEPT ![h] =
                                IF billing.ok THEN "update_billing"
                                              ELSE "set_billing"]
               /\ billReq' = [billReq EXCEPT ![h] =
                                 [tenant_id |-> tenant_id,
                                  usage_alert |-> usage_alert]]
               /\ UNCHANGED billResp
    /\ UNCHANGED <<billings, nextBillingId, usageVars, tenantVars, docVars>>

\* the rest of set_or_update_billing: update_billing on the row found, or
\* set_billing, whose Billing(**billing_data.dict()) raises TypeError for a
\* key that is no attribute of the class, before anything is added
PatchBillingSetOrUpdate(h) ==
    /\ billPc[h] \in {"update_billing", "set_billing"}
    /\ IF billPc[h] = "update_billing"
       THEN LET billing == get_billing(billReq[h].tenant_id)
            IN IF ~billing.ok
               THEN /\ BillFinish(h, "set_or_update_billing",
                                  BillingStatus(billing))
                    /\ UNCHANGED <<billings, nextBillingId>>
               ELSE /\ billings' =
                         {IF r \in billing.value /\ billReq[h].usage_alert # {}
                          THEN [r EXCEPT !.usage_alert = billReq[h].usage_alert]
                          ELSE r : r \in billings}
                    /\ UNCHANGED nextBillingId
                    /\ BillFinish(h, "set_or_update_billing", 200)
       ELSE IF ~(BillingCreateKeys \subseteq BillingAttributes)
       THEN /\ BillFinish(h, "set_or_update_billing", 500)
            /\ UNCHANGED <<billings, nextBillingId>>
       ELSE /\ billings' = billings \cup
                              {[id |-> nextBillingId,
                                tenant_id |-> billReq[h].tenant_id,
                                usage_alert |-> billReq[h].usage_alert]}
            /\ nextBillingId' = nextBillingId + 1
            /\ BillFinish(h, "set_or_update_billing", 200)
    /\ UNCHANGED <<usageVars, tenantVars, docVars>>

\* GET /api/v1/tenants/{tenant_id}/billing
GetBilling(h, tenant_id) ==
    /\ billPc[h] = "idle"
    /\ billResp' = [op |-> "get_billing", handler |-> h, tenant_id |-> tenant_id,
                    status |-> BillingStatus(get_billing(tenant_id))]
    /\ UNCHANGED <<billings, nextBillingId, billPc, billReq,
                   usageVars, tenantVars, docVars>>

BillingInit ==
    /\ billings = {}
    /\ nextBillingId = 1
    /\ billPc = [h \in BillingHandlers |-> "idle"]
    /\ billReq = [h \in BillingHandlers |-> NoBillReq]
    /\ billResp = NoBillResp

BillingNext ==
    \/ \E h \in BillingHandlers, t \in BillingTenants, u \in UsageAlerts :
          PatchBillingGet(h, t, u)
    \/ \E h \in BillingHandlers : PatchBillingSetOrUpdate(h)
    \/ \E h \in BillingHandlers, t \in BillingTenants : GetBilling(h, t)

Init == UsageInit /\ TenantInit /\ DocInit /\ BillingInit

SpecBilling == Init /\ [][BillingNext]_vars

SpecDoc == Init /\ [][DocNext]_vars

UsageNext ==
    \/ \E t \in UsageTenants, d \in Times, u \in UsageInputs, c \in BOOLEAN :
          InsertUsage(t, d, u, c)
    \/ \E t \in UsageTenants, d \in Times, k \in TokenInputs :
          SaveAIReply(t, d, k)
    \/ \E t \in UsageTenants, ym \in Months, tz \in TzOffsets :
          GetMonthlySummary(t, ym[1], ym[2], tz)
    \/ \E t \in UsageTenants, ym \in Months :
          MonthlySummaryEndpoint(t, ym[1], ym[2])
    \/ \E t \in UsageTenants, ym \in Months :
          GetMonthlyUsage(t, ym[1], ym[2])
    \/ \E t \in UsageTenants, ym \in Months, tz \in TzOffsets :
          DailyUsageEndpoint(t, ym[1], ym[2], tz)

SpecUsage == Init /\ [][UsageNext]_vars

SpecTenant == Init /\ [][TenantNext]_vars

\* the inserts alone, over request bodies of either sign
InsertNext ==
    \E t \in UsageTenants, d \in Times, c \in BOOLEAN,
       u \in UsageInputs \cup NegativeUsageInputs :
        InsertUsage(t, d, u, c)

SpecInsert == Init /\ [][InsertNext]_vars

\* the two stores and the monthly aggregates over them
AggregateNext ==
    \/ \E t \in UsageTenants, d \in Times, u \in UsageInputs, c \in BOOLEAN :
          InsertUsage(t, d, u, c)
    \/ \E t \in UsageTenants, d \in Times, k \in TokenInputs :
          SaveAIReply(t, d, k)
    \/ \E t \in UsageTenants, ym \in Months, tz \in TzOffsets :
          GetMonthlySummary(t, ym[1], ym[2], tz)
    \/ \E t \in UsageTenants, ym \in Months :
          AggregateMonthlyData(t, ym[1], ym[2])
    \/ \E t \in UsageTenants : AggregationMonthlyEndpoint(t)

SpecAggregate == Init /\ [][AggregateNext]_vars

\* the instants of the writes that precede a request whose query can fail
FaultTimes == {datetime(EpochYear, 12, 1), datetime(EpochYear + 1, 1, 1)}

\* the event store alone: replies saved and their feedback set
EventNext ==
    \/ \E t \in UsageTenants, d \in Times, k \in TokenInputs :
          SaveAIReply(t, d, k)
    \/ \E i \in ReplyIds, t \in UsageTenants, f \in BOOLEAN :
          UpdateFeedback(i, t, f)

SpecEvent == Init /\ [][EventNext]_vars

\* replies built from completions at successive instants, and explicit ones
ReplyNext ==
    \/ \E t \in UsageTenants, now \in Times, k \in TokenInputs :
          SaveAIReplyFromCompletion(t, now, k)
    \/ \E t \in UsageTenants, d \in Times, k \in TokenInputs :
          SaveAIReply(t, d, k)

SpecReply == Init /\ [][ReplyNext]_vars

\* the two stores and the summary requests during which a query can fail
FaultNext ==
    \/ \E t \in UsageTenants, d \in FaultTimes, u \in UsageInputs, c \in BOOLEAN :
          InsertUsage(t, d, u, c)
    \/ \E t \in UsageTenants, d \in FaultTimes, k \in TokenInputs :
          SaveAIReply(t, d, k)
    \/ \E t \in UsageTenants, ym \in Months, my \in BOOLEAN, mg \in BOOLEAN :
          MonthlySummaryEndpointIO(t, ym[1], ym[2], my, mg)
    \/ \E t \in UsageTenants, ym \in Months, tz \in TzOffsets,
          my \in BOOLEAN, mg \in BOOLEAN :
          DailyUsageEndpointIO(t, ym[1], ym[2], tz, my, mg)

SpecFault == Init /\ [][FaultNext]_vars

\* the window computations alone, over every month of two years
WindowNext ==
    \/ \E y \in WindowYears, m \in WindowMonths, tz \in TzOffsets :
          MonthlySummaryWindow(y, m, tz)
    \/ \E y \in WindowYears, m \in WindowMonths, tz \in TzOffsets :
          DailyUsageWindow(y, m, tz)
    \/ \E y \in WindowYears, m \in WindowMonths :
          AggregateMonthlyDataWindow(y, m)

SpecWindow == Init /\ [][WindowNext]_vars

(***************************************************************************)
(* Properties of the usage aggregation, checked under SpecUsage.           *)
(***************************************************************************)
\* the tenant's ledger rows stamped in the half-open local month
\* [monthStart - tz, nextMonthStart - tz)
MonthLedgerRows(tenant_id, year, month, tz) ==
    { r \in ledger :
        /\ r.tenant_id = tenant_id
        /\ datetime(year, month, 1) - 60 * tz <= r.date
        /\ r.date < NextMonthStart(year, month) - 60 * tz }

\* the tenant's events stamped in the same half-open local month
MonthEvents(tenant_id, year, month, tz) ==
    { d \in mongo[CollectionName(tenant_id)] :
        /\ datetime(year, month, 1) - 60 * tz <= d.created_at
        /\ d.created_at < NextMonthStart(year, month) - 60 * tz }

\* C1: a monthly summary reads exactly the ledger rows and exactly the
\* events of the tenant stamped in [monthStart - tz, nextMonthStart - tz),
\* the final second of the month included, with one window for both stores.
C1_SameHalfOpenWindow ==
    usageResp.op = "get_monthly_summary" =>
        /\ usageResp.fetched.rows =
              { r.id : r \in MonthLedgerRows(usageResp.tenant_id, usageResp.year,
                                             usageResp.month, usageResp.tz) }
        /\ usageResp.fetched.records =
              { d._id : d \in MonthEvents(usageResp.tenant_id, usageResp.year,
                                          usageResp.month, usageResp.tz) }

\* C2: the monthly summary endpoint answers with the ledger sums plus the
\* event sums of the month, whatever the two stores hold.
C2_MonthlyTotals ==
    usageResp.op = "get_monthly_summary_endpoint" =>
        LET rows == MonthLedgerRows(usageResp.tenant_id, usageResp.year,
                                    usageResp.month, 0)
            events == MonthEvents(usageResp.tenant_id, usageResp.year,
                                  usageResp.month, 0)
        IN /\ usageResp.response.status = 200
           /\ usageResp.response.body.total_tokens_used =
                 SumOver(rows, [r \in rows |-> r.tokens_used])
                 + SumOver(events, [d \in events |-> d.total_tokens])
           /\ usageResp.response.body.total_price =
                 SumOver(rows, [r \in rows |-> r.total_price])
                 + SumOver(events, [d \in events |-> document_total_price(d)])

\* C3: the price the aggregation engine puts on a fetched event is the sum
\* over its token categories of count * unit price.
C3_PerCategoryPricing ==
    usageResp.op \in {"get_monthly_summary", "get_daily_usage_endpoint"} =>
        \A oid \in DOMAIN usageResp.fetched.prices :
            /\ usageResp.fetched.prices[oid].ok
            /\ \A d \in mongo[CollectionName(usageResp.tenant_id)] :
                  d._id = oid =>
                      usageResp.fetched.prices[oid].value = document_total_price(d)

(***************************************************************************)
(* Properties of the tenant registry, checked under SpecTenant.            *)
(***************************************************************************)
\* C4: no two committed tenant rows have the same name.
C4_UniqueNames ==
    \A r1, r2 \in tenants : r1.name = r2.name => r1.id = r2.id

\* C5: no two committed tenant rows have the same alias.
C5_UniqueAliases ==
    \A r1, r2 \in tenants : r1.alias = r2.alias => r1.id = r2.id

\* C5 witness: a registration that passed the pre-check lost to a committed
\* row with its alias, while that row is in the table.
C5_Witness ==
    /\ resp.op = "register"
    /\ resp.exc = "IntegrityError"
    /\ \E r \in tenants : r.alias = resp.alias

\* C6: a registration rejected by the uniqueness constraint after passing
\* the pre-check is answered with a duplicate-tenant error kind.
C6_ConstraintRejectionKind ==
    (resp.op = "register" /\ resp.exc = "IntegrityError") =>
        resp.error_code \in {"DUPLICATE_TENANT_NAME", "DUPLICATE_TENANT_ALIAS"}

\* C7: a registration whose name is already held is answered with the
\* duplicate-name kind, one whose alias alone is already held with the
\* duplicate-alias kind, and neither inserts a row.
C7_DuplicateKinds ==
    resp.op = "register" =>
        /\ resp.name_rows > 0 =>
              (resp.error_code = "DUPLICATE_TENANT_NAME" /\ resp.inserted = {})
        /\ (resp.name_rows = 0 /\ resp.alias_rows > 0) =>
              (resp.error_code = "DUPLICATE_TENANT_ALIAS" /\ resp.inserted = {})

\* C8: every committed tenant row carries the identifier "tenant_<id>" of
\* its own surrogate id, and no two rows share an identifier.
C8_PublicIdentifier ==
    /\ \A r \in tenants : r.tenant_id = "tenant_" \o ToString(r.id)
    /\ \A r1, r2 \in tenants : r1.tenant_id = r2.tenant_id => r1 = r2

\* C8 witness: two registered tenants, one of them just changed by an update.
C8_Witness ==
    /\ Cardinality(tenants) = 2
    /\ resp.op = "update"
    /\ resp.status = 200

\* C9: when the logo upload of a registration fails, the call is answered
\* as failed and the row it inserted is in the table no longer.
C9_LogoFailureCompensated ==
    (resp.op = "register" /\ resp.exc = "UploadFailed") =>
        /\ resp.status = 500
        /\ resp.inserted # {}
        /\ ~ \E r \in tenants : r.id \in resp.inserted

\* C9 witness: a registration failed on its logo upload while another
\* tenant is registered.
C9_Witness ==
    /\ resp.op = "register"
    /\ resp.exc = "UploadFailed"
    /\ tenants # {}

\* C10: a delete that matches a row answers 204, and one that matches no
\* row answers 404.
C10_DeleteStatus ==
    resp.op = "delete" =>
        IF resp.rowcount = 0 THEN resp.status = 404 ELSE resp.status = 204

\* C11: a find without any criterion is answered as an error, and a find
\* that names a tenant_id, with or without a name or an alias, finds exactly
\* the row with that tenant_id (200) or none (404).
C11_IdentifierPrecedence ==
    resp.op = "find" =>
        /\ (resp.name = None /\ resp.alias = None /\ resp.tenant_id = None) =>
              resp.status = 400
        /\ resp.tenant_id # None =>
              /\ resp.found = resp.id_rows
              /\ resp.status = IF resp.id_rows = {} THEN 404 ELSE 200

\* the step in which handler h answers an update request
UpdateAnswered(h) ==
    /\ resp'.op = "update"
    /\ resp'.handler = h
    /\ pc'[h] = "idle"
    /\ pc[h] = "update" \/ requests' # requests

\* C12: an update of a tenant_id that no row holds is answered 404 and
\* changes nothing; an update of a tenant_id that a row holds is not
\* answered before its commit, is answered 200 then, and leaves in that row
\* the supplied value in every supplied column and the old value in every
\* other column, with every other row unchanged.
C12_UpdateExactlySupplied ==
    [][\A h \in Handlers :
          UpdateAnswered(h) =>
              LET known == RowsByTenantId(resp'.tenant_id)
              IN IF known = {}
                 THEN resp'.status = 404 /\ tenants' = tenants
                 ELSE /\ pc[h] = "update"
                      /\ resp'.status = 200
                      /\ \A r \in tenants \ known : r \in tenants'
                      /\ Cardinality(tenants') = Cardinality(tenants)
                      /\ \A r \in known : \E s \in tenants' :
                            /\ s.id = r.id
                            /\ \A f \in TenantColumns :
                                  s[f] = IF f \in DOMAIN req[h].tenant_data
                                         THEN req[h].tenant_data[f]
                                         ELSE r[f]
      ]_vars

(***************************************************************************)
(* Properties of the daily summary and of the ledger, under SpecUsage.     *)
(***************************************************************************)
\* the ledger rows and the events of the local month that fall in local day
\* number `day` at offset tz
DayLedgerRows(tenant_id, year, month, tz, day) ==
    { r \in MonthLedgerRows(tenant_id, year, month, tz) :
        (r.date + 60 * tz) \div SecondsPerDay = day }

DayEvents(tenant_id, year, month, tz, day) ==
    { d \in MonthEvents(tenant_id, year, month, tz) :
        (d.created_at + 60 * tz) \div SecondsPerDay = day }

\* the local day numbers of the local month that hold a record
LocalDays(tenant_id, year, month, tz) ==
    { (r.date + 60 * tz) \div SecondsPerDay :
        r \in MonthLedgerRows(tenant_id, year, month, tz) }
    \cup { (d.created_at + 60 * tz) \div SecondsPerDay :
             d \in MonthEvents(tenant_id, year, month, tz) }

\* the buckets of a daily summary response: none unless it is a 200
DailyBuckets(response) ==
    IF response.status = 200
    THEN { response.body[i] : i \in 1..Len(response.body) }
    ELSE {}

\* order of the dates <<year, month, day>>
DateLess(a, b) ==
    \/ a[1] < b[1]
    \/ a[1] = b[1] /\ a[2] < b[2]
    \/ a[1] = b[1] /\ a[2] = b[2] /\ a[3] < b[3]

\* C13: for every local date of the window that holds a ledger row or an
\* event, the daily summary has a bucket of that date whose tokens and
\* price are the sums over the rows (stored total_price) and the events
\* (price per category) of that date.
C13_DailyBucketSums ==
    usageResp.op = "get_daily_usage_endpoint" =>
        \A day \in LocalDays(usageResp.tenant_id, usageResp.year,
                             usageResp.month, usageResp.tz) :
            LET rows == DayLedgerRows(usageResp.tenant_id, usageResp.year,
                                      usageResp.month, usageResp.tz, day)
                events == DayEvents(usageResp.tenant_id, usageResp.year,
                                    usageResp.month, usageResp.tz, day)
            IN \E b \in DailyBuckets(usageResp.response) :
                  /\ b.date = strftime(day)
                  /\ b.tokens_used =
                        SumOver(rows, [r \in rows |-> r.tokens_used])
                        + SumOver(events, [d \in events |-> d.total_tokens])
                  /\ b.total_price =
                        SumOver(rows, [r \in rows |-> r.total_price])
                        + SumOver(events, [d \in events |-> document_total_price(d)])

\* C14: the dates of a daily summary are strictly ascending, and they are
\* exactly the local dates of the window that hold a ledger row or an event.
C14_SparseAscending ==
    usageResp.op = "get_daily_usage_endpoint" =>
        /\ usageResp.response.status = 200 =>
              \A i \in 1..(Len(usageResp.response.body) - 1) :
                  DateLess(usageResp.response.body[i].date,
                           usageResp.response.body[i + 1].date)
        /\ { b.date : b \in DailyBuckets(usageResp.response) } =
              { strftime(day) : day \in LocalDays(usageResp.tenant_id, usageResp.year,
                                                   usageResp.month, usageResp.tz) }

\* the tenant's events inside the window of get_monthly_usage
UtcMonthEvents(tenant_id, year, month) ==
    { d \in mongo[CollectionName(tenant_id)] :
        /\ d.created_at >= MonthlyUsageWindow(year, month).start_date
        /\ d.created_at <= MonthlyUsageWindow(year, month).end_date }

\* the buckets of the records of the UTC month by their UTC calendar date
UtcBuckets(tenant_id, year, month) ==
    LET rows == get_monthly_usage(tenant_id, year, month)
        events == UtcMonthEvents(tenant_id, year, month)
        days == { r.date \div SecondsPerDay : r \in rows }
                \cup { d.created_at \div SecondsPerDay : d \in events }
        rowsOf(day) == { r \in rows : r.date \div SecondsPerDay = day }
        eventsOf(day) == { d \in events : d.created_at \div SecondsPerDay = day }
    IN { [date |-> strftime(day),
          tokens_used |->
              SumOver(rowsOf(day), [r \in rows |-> r.tokens_used])
              + SumOver(eventsOf(day), [d \in events |-> d.total_tokens]),
          total_price |->
              SumOver(rowsOf(day), [r \in rows |-> r.total_price])
              + SumOver(eventsOf(day), [d \in events |-> document_total_price(d)])] :
         day \in days }

\* C15: at offset 0 the monthly and the daily summary read exactly the
\* records in the UTC calendar-month window of get_monthly_usage, and the
\* daily summary is the bucketing of those records by their UTC date.
C15_ZeroOffsetIsUtc ==
    (usageResp.op \in {"get_monthly_summary", "get_daily_usage_endpoint"}
     /\ usageResp.tz = 0) =>
        /\ usageResp.fetched.rows =
              { r.id : r \in get_monthly_usage(usageResp.tenant_id,
                                               usageResp.year, usageResp.month) }
        /\ usageResp.fetched.records =
              { d._id : d \in UtcMonthEvents(usageResp.tenant_id,
                                             usageResp.year, usageResp.month) }
        /\ usageResp.op = "get_daily_usage_endpoint" =>
              DailyBuckets(usageResp.response) =
                  UtcBuckets(usageResp.tenant_id, usageResp.year, usageResp.month)

\* the tenant's ledger rows and events stamped in the local December and
\* January taken as one window
TwoMonthLedgerRows(tenant_id, tz) ==
    { r \in ledger :
        /\ r.tenant_id = tenant_id
        /\ datetime(EpochYear, 12, 1) - 60 * tz <= r.date
        /\ r.date < datetime(EpochYear + 1, 2, 1) - 60 * tz }

TwoMonthEvents(tenant_id, tz) ==
    { d \in mongo[CollectionName(tenant_id)] :
        /\ datetime(EpochYear, 12, 1) - 60 * tz <= d.created_at
        /\ d.created_at < datetime(EpochYear + 1, 2, 1) - 60 * tz }

\* C17: the monthly summaries of December and of the January after it read
\* disjoint sets of ledger rows and of events that together are the records
\* of the two months taken as one window, and their totals add up to the
\* totals over that window.
C17_Additivity ==
    (usageResp.op = "get_monthly_summary"
     /\ usageResp.year = EpochYear /\ usageResp.month = 12) =>
        LET t == usageResp.tenant_id
            tz == usageResp.tz
            dec == usageResp.result
            decFetched == usageResp.fetched
            jan == get_monthly_summary(t, EpochYear + 1, 1, tz)
            janFetched == Fetched(t, EpochYear + 1, 1, tz)
            rows == TwoMonthLedgerRows(t, tz)
            events == TwoMonthEvents(t, tz)
        IN /\ decFetched.rows \cap janFetched.rows = {}
           /\ decFetched.rows \cup janFetched.rows = { r.id : r \in rows }
           /\ decFetched.records \cap janFetched.records = {}
           /\ decFetched.records \cup janFetched.records = { d._id : d \in events }
           /\ dec.ok /\ jan.ok
           /\ dec.value.total_tokens_used + jan.value.total_tokens_used =
                 SumOver(rows, [r \in rows |-> r.tokens_used])
                 + SumOver(events, [d \in events |-> d.total_tokens])
           /\ dec.value.total_price + jan.value.total_price =
                 SumOver(rows, [r \in rows |-> r.total_price])
                 + SumOver(events, [d \in events |-> document_total_price(d)])

(***************************************************************************)
(* Properties of the ledger: C18 and C20 under SpecInsert, C19 under       *)
(* SpecUsage.                                                              *)
(***************************************************************************)
\* C18: an insert answered 201 adds exactly one row, under an id no row
\* had, that carries the tenant, the date, the count and the unit price of
\* the request and count * unit price as total_price, and returns that
\* row; an insert whose commit fails is answered 500 and leaves the ledger
\* as it was.
C18_InsertUsageRecord ==
    [][usageResp'.op = "insert_usage_record" =>
          LET request == usageResp'.request
              row == usageResp'.body
          IN IF usageResp'.status = 201
             THEN /\ ledger' = ledger \cup {row}
                  /\ Cardinality(ledger') = Cardinality(ledger) + 1
                  /\ \A r \in ledger : r.id # row.id
                  /\ row.tenant_id = request.tenant_id
                  /\ row.date = request.date
                  /\ row.tokens_used = request.usage_data.tokens_used
                  /\ row.per_token_price = request.usage_data.per_token_price
                  /\ row.total_price =
                        request.usage_data.tokens_used
                        * request.usage_data.per_token_price
             ELSE /\ usageResp'.status = 500
                  /\ ledger' = ledger
      ]_vars

\* C18 witness: 1500 tokens at 0.01 stored as 15.0, as the second row of
\* the ledger
C18_Witness ==
    /\ usageResp.op = "insert_usage_record"
    /\ usageResp.status = 201
    /\ usageResp.request.usage_data = [tokens_used |-> 1500, per_token_price |-> 1000]
    /\ usageResp.body.total_price = 1500000
    /\ Cardinality(ledger) = 2

C20_NonNegativeLedger ==
    /\ \A r \in ledger :
          r.tokens_used >= 0 /\ r.per_token_price >= 0 /\ r.total_price >= 0
    /\ (usageResp.op = "insert_usage_record"
        /\ (usageResp.request.usage_data.tokens_used < 0
            \/ usageResp.request.usage_data.per_token_price < 0)) =>
          usageResp.status # 201

(***************************************************************************)
(* Properties of the window computation, checked under SpecWindow.         *)
(***************************************************************************)
\* C16: each of the three window computations ends without error, and the
\* instant its end is derived from is midnight of the first of January of
\* year + 1 for month 12 and of the first of month + 1 of the same year for
\* months 1 to 11; the end is that instant, moved back by one second and
\* the offset in the two summaries.
C16_YearCarry ==
    usageResp.op = "window" =>
        /\ usageResp.window.ok
        /\ LET b == usageResp.window.value.boundary
           IN /\ b % SecondsPerDay = 0
              /\ strftime(b \div SecondsPerDay) =
                    IF usageResp.month = 12
                    THEN <<usageResp.year + 1, 1, 1>>
                    ELSE <<usageResp.year, usageResp.month + 1, 1>>
              /\ usageResp.window.value.end_date =
                    IF usageResp.fn = "aggregate_monthly_data"
                    THEN b
                    ELSE b - 1 - 60 * usageResp.tz

\* C16 witness: the window of a December in each of the three functions
C16_Witness ==
    /\ usageResp.op = "window"
    /\ usageResp.month = 12
    /\ usageResp.fn = "aggregate_monthly_data"
    /\ usageResp.window.ok

(***************************************************************************)
(* Properties of the monthly aggregates, checked under SpecAggregate.      *)
(***************************************************************************)
\* C21: over a window in which the tenant has no ledger row and no event,
\* the monthly summary succeeds with 0 tokens and price 0, and the monthly
\* aggregate of the event store is (0, 0).
C21_EmptyWindowIsZero ==
    /\ (usageResp.op = "get_monthly_summary"
        /\ MonthLedgerRows(usageResp.tenant_id, usageResp.year,
                           usageResp.month, usageResp.tz) = {}
        /\ MonthEvents(usageResp.tenant_id, usageResp.year,
                       usageResp.month, usageResp.tz) = {}) =>
          /\ usageResp.result.ok
          /\ usageResp.result.value.total_tokens_used = 0
          /\ usageResp.result.value.total_price = 0
    /\ (usageResp.op = "aggregate_monthly_data"
        /\ MonthEvents(usageResp.tenant_id, usageResp.year,
                       usageResp.month, 0) = {}) =>
          usageResp.result = <<0, 0>>

\* C21 witness: a monthly summary of a tenant without data in the window,
\* while the other tenant has a ledger row and an event
C21_Witness ==
    /\ usageResp.op = "get_monthly_summary"
    /\ usageResp.result.ok
    /\ MonthLedgerRows(usageResp.tenant_id, usageResp.year,
                       usageResp.month, usageResp.tz) = {}
    /\ MonthEvents(usageResp.tenant_id, usageResp.year,
                   usageResp.month, usageResp.tz) = {}
    /\ ledger # {}
    /\ \E t \in UsageTenants : mongo[CollectionName(t)] # {}

\* C22: a monthly or daily summary request during which the ledger query
\* or the event-store query fails is answered 500; a request answered with
\* a total or a series had both queries succeed.
C22_NoPartialResult ==
    usageResp.op \in {"get_monthly_summary_endpoint_io",
                      "get_daily_usage_endpoint_io"} =>
        /\ (~usageResp.mysql_ok \/ ~usageResp.mongo_ok) =>
              usageResp.response.status = 500
        /\ usageResp.response.status = 200 =>
              (usageResp.mysql_ok /\ usageResp.mongo_ok)

\* C22 witness: the event-store query failed for a tenant whose window holds
\* a ledger row
C22_Witness ==
    /\ usageResp.op = "get_monthly_summary_endpoint_io"
    /\ usageResp.mysql_ok /\ ~usageResp.mongo_ok
    /\ usageResp.response.status = 500
    /\ MonthLedgerRows(usageResp.tenant_id, usageResp.year, usageResp.month, 0) # {}

\* C23: GET /aggregation/monthly with a non-empty tenant_id is answered 200
\* with the combined aggregation of the tenant (both stores are reachable
\* in every state of this specification).
C23_MonthlyAggregationAnswers ==
    usageResp.op = "get_real_time_monthly_aggregation" =>
        usageResp.response.status = 200

\* C24: events are append-only. A step that changes the event store either
\* adds exactly one event with a fresh id to one collection (save_ai_reply)
\* or replaces, in one collection, the event with the given id by a copy
\* that differs in customer_feedback only (update_feedback); every other
\* event and every other collection is unchanged, and no event disappears.
C24_EventsAppendOnly ==
    [][mongo' # mongo =>
        \E c \in DOMAIN mongo :
            /\ \A c2 \in DOMAIN mongo \ {c} : mongo'[c2] = mongo[c2]
            /\ \/ /\ usageResp'.op = "save_ai_reply"
                  /\ \E d \in mongo'[c] :
                        /\ \A c2 \in DOMAIN mongo : \A e \in mongo[c2] : e._id # d._id
                        /\ mongo'[c] = mongo[c] \cup {d}
               \/ /\ usageResp'.op = "update_feedback"
                  /\ \E old \in mongo[c] :
                        /\ old._id = usageResp'.reply_id
                        /\ mongo'[c] =
                              (mongo[c] \ {old}) \cup
                                {[old EXCEPT !.customer_feedback =
                                                 {usageResp'.feedback}]}]_vars

\* C24 witness: update_feedback changed the flag of one of two events of a
\* collection
C24_Witness ==
    /\ usageResp.op = "update_feedback"
    /\ usageResp.modified
    /\ \E d \in mongo[CollectionName(usageResp.tenant_id)] :
          /\ d._id = usageResp.reply_id
          /\ d.customer_feedback = {usageResp.feedback}
    /\ \E e \in mongo[CollectionName(usageResp.tenant_id)] :
          /\ e._id # usageResp.reply_id
          /\ e.customer_feedback = {}

\* C25: at most one TenantDoc row exists per (tenant_id, doc_name), also
\* when creates run concurrently; and a create that ends while a committed
\* row of its key exists that it did not just commit itself fails (the HTTP
\* create with status 400) and leaves table tenant_docs as it was.
C25_TenantDocUnique ==
    /\ [](\A r1 \in docs : \A r2 \in docs :
            (r1.tenant_id = r2.tenant_id /\ r1.doc_name = r2.doc_name) => r1 = r2)
    /\ [][\A h \in DocHandlers :
            (/\ docPc[h] \in {"select", "flush", "commit"}
             /\ docPc'[h] = "idle"
             /\ \E r \in docs : /\ r.tenant_id = docReq[h].tenant_id
                                 /\ r.doc_name = docReq[h].doc_name) =>
                /\ docs' = docs
                /\ docResp'.h = h
                /\ docResp'.outcome \in {"conflict", "failed"}
                /\ docReq[h].kind = "http" => docResp'.status = {400}]_vars

\* C25 witness: of two HTTP creates of one key that both passed the select,
\* the second was refused at its INSERT and the row of the first is stored
C25_Witness ==
    /\ docResp.h # "None"
    /\ docResp.kind = "http"
    /\ docResp.at = "flush"
    /\ docResp.status = {400}
    /\ \E r \in docs : /\ r.tenant_id = docResp.tenant_id
                        /\ r.doc_name = docResp.doc_name
                        /\ r.num_entries # docResp.num_entries

\* C26: tenant isolation of aggregation. The monthly summary and the daily
\* summary of a tenant are those computed on the stores with the rows and
\* the events of every other tenant removed; so two store states that agree
\* on the tenant's rows and events give the same results.
C26_TenantIsolation ==
    \A a \in UsageTenants :
        LET own_rows == {r \in ledger : r.tenant_id = a}
            own_events == [c \in DOMAIN mongo |->
                             IF c = CollectionName(a) THEN mongo[c] ELSE {}]
        IN \A ym \in Months, tz \in TzOffsets :
              /\ get_monthly_summary(a, ym[1], ym[2], tz) =
                    get_monthly_summary_in(own_rows, own_events, a, ym[1], ym[2], tz)
              /\ get_combined_daily_usage(a, ym[1], ym[2], tz) =
                    get_combined_daily_usage_in(own_rows, own_events, a,
                                                ym[1], ym[2], tz)

\* C26 witness: a monthly summary of a tenant with a non-zero total for a
\* month in which the other tenant has a ledger row too
C26_Witness ==
    /\ usageResp.op = "get_monthly_summary_endpoint_io"
    /\ usageResp.response.status = 200
    /\ usageResp.response.body.total_tokens_used > 0
    /\ \E b \in UsageTenants \ {usageResp.tenant_id} :
          MonthLedgerRows(b, usageResp.year, usageResp.month, usageResp.tz) # {}

\* C27: for every tenant, month and offset, the daily summary and the
\* monthly summary computed with the same offset agree: the tokens of the
\* daily entries add up to the monthly total_tokens_used, their prices to
\* the monthly total_price, and every date of a daily entry lies in the
\* requested month.
C27_DailySumsToMonthly ==
    \A a \in UsageTenants, ym \in Months, tz \in TzOffsets :
        LET monthly == get_monthly_summary(a, ym[1], ym[2], tz)
            daily == get_combined_daily_usage(a, ym[1], ym[2], tz)
            entries == DOMAIN daily.value
        IN /\ monthly.ok
           /\ daily.ok
           /\ SumOver(entries, [i \in entries |-> daily.value[i].tokens_used])
                 = monthly.value.total_tokens_used
           /\ SumOver(entries, [i \in entries |-> daily.value[i].total_price])
                 = monthly.value.total_price
           /\ \A i \in entries : /\ daily.value[i].date[1] = ym[1]
                                  /\ daily.value[i].date[2] = ym[2]

\* C28: an event created without an explicit created_at carries the time
\* at which it was created.
C28_CreatedAtIsCreationTime ==
    usageResp.op = "from_openai_completion" =>
        \A d \in mongo[CollectionName(usageResp.tenant_id)] :
            d._id = usageResp.inserted_id => d.created_at = usageResp.now

\* C29: a find with both a name and an alias is answered with one tenant
\* (200) or with not found (404), also when the name matches one tenant and
\* the alias another.
C29_FindByNameAndAlias ==
    (resp.op = "find" /\ resp.name # None /\ resp.alias # None) =>
        resp.status \in {200, 404}

\* C30: whatever the interleaving of PATCH .../billing calls, no tenant has
\* two billing rows, and once such a call has ended a get_billing of its
\* tenant returns the tenant's single row.
C30_OneBillingRow ==
    /\ \A r1 \in billings : \A r2 \in billings :
          r1.tenant_id = r2.tenant_id => r1 = r2
    /\ billResp.op = "set_or_update_billing" =>
          get_billing(billResp.tenant_id).ok

=============================================================================
